---- MODULE Spec2Model ----
(***************************************************************************)
(* Model of src/main.py: the OptionsAnalyzer object (analysis_data,        *)
(* margin_percent, lot_multiplier), its operations analyze, save_to_excel, *)
(* save_graphs and run, and the metrics functions they call.               *)
(*                                                                         *)
(* Numbers.  Python ints are TLA+ integers.  Python floats are IEEE-754    *)
(* binary64 values and are modelled bit-exactly: a float is a record       *)
(* [neg, m, e] with m the 53-bit significand (a natural 2^52 <= m < 2^53   *)
(* written in base 2^15, most significant limb first) and value            *)
(* (-1)^neg * m * 2^e; FZero has m = <<>>.  Every float operation computes *)
(* the exact result on unbounded naturals and rounds it to nearest, ties   *)
(* to even, as the hardware does.  The model covers the normal range only  *)
(* (no overflow, subnormals, inf or nan).                                  *)
(***************************************************************************)
EXTENDS Integers, Sequences, FiniteSets, TLC

VARIABLES
    analysis_data,    \* self.analysis_data: the list of rows
    margin_percent,   \* self.margin_percent
    lot_multiplier,   \* self.lot_multiplier
    files,            \* the file system: file name -> content, for the files that exist
    clock,            \* the wall clock, in seconds (datetime.now())
    call,             \* the call in progress or last made: its name and arguments
    result,           \* its outcome: a returned value or a raised exception
    prev,             \* the call made before it, with its outcome
    calls             \* the number of calls made on the object

vars == <<analysis_data, margin_percent, lot_multiplier, files, clock, call, result, prev, calls>>

\* ------------------------------------------------------------------------
\* Unbounded naturals: sequences of limbs in base 2^15, most significant
\* first, without leading zero limbs (<<>> is 0).
\* ------------------------------------------------------------------------
Precision == 53

LimbBits == 15

Base == 2 ^ LimbBits

LZeros(n) == [i \in 1..n |-> 0]

MaxOf(a, b) == IF a >= b THEN a ELSE b

MinOf(a, b) == IF a <= b THEN a ELSE b

RECURSIVE LStrip(_)
LStrip(a) == IF a = <<>> \/ a[1] # 0 THEN a ELSE LStrip(Tail(a))

LPad(a, n) == LZeros(n - Len(a)) \o a

RECURSIVE NatLimbs(_)
NatLimbs(n) == IF n = 0 THEN <<>> ELSE Append(NatLimbs(n \div Base), n % Base)

RECURSIVE LimbsNat(_)
LimbsNat(a) ==
    IF a = <<>> THEN 0 ELSE Base * LimbsNat(SubSeq(a, 1, Len(a) - 1)) + a[Len(a)]

RECURSIVE AddLoop(_, _, _, _, _)
AddLoop(a, b, i, c, acc) ==
    IF i = 0 THEN <<c>> \o acc
    ELSE AddLoop(a, b, i - 1, (a[i] + b[i] + c) \div Base,
                 <<(a[i] + b[i] + c) % Base>> \o acc)

BigAdd(a, b) ==
    LStrip(AddLoop(LPad(a, MaxOf(Len(a), Len(b))), LPad(b, MaxOf(Len(a), Len(b))),
                   MaxOf(Len(a), Len(b)), 0, <<>>))

RECURSIVE SubLoop(_, _, _, _, _)
SubLoop(a, b, i, c, acc) ==
    IF i = 0 THEN acc
    ELSE SubLoop(a, b, i - 1, IF a[i] < b[i] + c THEN 1 ELSE 0,
                 <<(a[i] - b[i] - c + Base) % Base>> \o acc)

\* a - b for a >= b
BigSub(a, b) ==
    LStrip(SubLoop(LPad(a, MaxOf(Len(a), Len(b))), LPad(b, MaxOf(Len(a), Len(b))),
                   MaxOf(Len(a), Len(b)), 0, <<>>))

BigLess(a, b) ==
    IF Len(a) # Len(b) THEN Len(a) < Len(b)
    ELSE \E i \in 1..Len(a) : a[i] < b[i] /\ \A j \in 1..(i - 1) : a[j] = b[j]

RECURSIVE MulAddLoop(_, _, _, _, _)
MulAddLoop(a, k, i, c, acc) ==
    IF i = 0 THEN <<c>> \o acc
    ELSE MulAddLoop(a, k, i - 1, (a[i] * k + c) \div Base,
                    <<(a[i] * k + c) % Base>> \o acc)

\* a * k + c for 0 <= k, c < Base
MulAdd(a, k, c) == LStrip(MulAddLoop(a, k, Len(a), c, <<>>))

RECURSIVE MulLoop(_, _, _, _)
MulLoop(a, b, i, acc) ==
    IF i > Len(b) THEN acc
    ELSE MulLoop(a, b, i + 1,
                 BigAdd(IF acc = <<>> THEN acc ELSE Append(acc, 0), MulAdd(a, b[i], 0)))

BigMul(a, b) == MulLoop(a, b, 1, <<>>)

\* quotient and remainder of a * Base^Len(low) + low by d * Base^Len(low),
\* 0 < d <= Base, from limb i of a on, with q and r those of the limbs before
RECURSIVE DivSmallLoop(_, _, _, _, _, _)
DivSmallLoop(a, d, i, q, r, low) ==
    IF i > Len(a) THEN [q |-> LStrip(q), r |-> LStrip(<<r>> \o low)]
    ELSE DivSmallLoop(a, d, i + 1, Append(q, (r * Base + a[i]) \div d),
                      (r * Base + a[i]) % d, low)

\* a * 2^s
ShiftLeft(a, s) ==
    IF a = <<>> THEN a ELSE MulAdd(a, 2 ^ (s % LimbBits), 0) \o LZeros(s \div LimbBits)

\* quotient and remainder of a by 2^s
ShiftRight(a, s) ==
    IF s \div LimbBits >= Len(a) THEN [q |-> <<>>, r |-> a]
    ELSE DivSmallLoop(SubSeq(a, 1, Len(a) - s \div LimbBits), 2 ^ (s % LimbBits),
                      1, <<>>, 0, SubSeq(a, Len(a) - s \div LimbBits + 1, Len(a)))

\* number of bits of a # 0
BitLen(a) ==
    LimbBits * (Len(a) - 1)
      + CHOOSE k \in 1..LimbBits : 2 ^ (k - 1) <= a[1] /\ a[1] < 2 ^ k

\* whether q + (r + f) / 2^s rounds up to nearest, ties to even, with q the
\* integer part, 0 <= r < 2^s and 0 < f < 1 exactly when sticky
RoundsUp(q, r, s, sticky) ==
    IF s = 0 THEN FALSE
    ELSE IF r = ShiftLeft(<<1>>, s - 1) THEN sticky \/ (q # <<>> /\ q[Len(q)] % 2 = 1)
    ELSE BigLess(ShiftLeft(<<1>>, s - 1), r)

\* the natural nearest to d.q + (d.r + f) / 2^s
RoundQuotient(d, s, sticky) ==
    IF RoundsUp(d.q, d.r, s, sticky) THEN MulAdd(d.q, 1, 1) ELSE d.q

\* ------------------------------------------------------------------------
\* binary64 floats
\* ------------------------------------------------------------------------
FZero == [neg |-> FALSE, m |-> <<>>, e |-> 0]

IsZero(x) == x.m = <<>>

\* the float of significand r, which has Precision bits or, after a carry
\* out of the rounding, is 2^Precision
Renormalize(neg, r, e) ==
    IF BitLen(r) > Precision THEN [neg |-> neg, m |-> ShiftRight(r, 1).q, e |-> e + 1]
    ELSE [neg |-> neg, m |-> r, e |-> e]

\* RoundNearest for b # 0 of L bits
RoundBits(neg, b, e, sticky, L) ==
    IF L <= Precision
    THEN [neg |-> neg, m |-> ShiftLeft(b, Precision - L), e |-> e - (Precision - L)]
    ELSE Renormalize(neg, RoundQuotient(ShiftRight(b, L - Precision), L - Precision, sticky),
                     e + (L - Precision))

\* the float nearest to (-1)^neg * (b + f) * 2^e, with 0 < f < 1 exactly when
\* sticky (then b has more than 54 bits): round to nearest, ties to even
RoundNearest(neg, b, e, sticky) ==
    IF b = <<>> THEN FZero ELSE RoundBits(neg, b, e, sticky, BitLen(b))

\* int -> float
FromInt(n) == RoundNearest(n < 0, NatLimbs(IF n < 0 THEN -n ELSE n), 0, FALSE)

FltNeg(x) == IF IsZero(x) THEN x ELSE [x EXCEPT !.neg = ~x.neg]

\* the float nearest to (-1)^xneg * xb * 2^e + (-1)^yneg * yb * 2^e
AddAligned(xneg, xb, yneg, yb, e) ==
    IF xneg = yneg THEN RoundNearest(xneg, BigAdd(xb, yb), e, FALSE)
    ELSE IF BigLess(xb, yb) THEN RoundNearest(yneg, BigSub(yb, xb), e, FALSE)
    ELSE RoundNearest(xneg, BigSub(xb, yb), e, FALSE)

\* x + y
FltAdd(x, y) ==
    IF IsZero(x) THEN y
    ELSE IF IsZero(y) THEN x
    ELSE AddAligned(x.neg, ShiftLeft(x.m, x.e - MinOf(x.e, y.e)),
                    y.neg, ShiftLeft(y.m, y.e - MinOf(x.e, y.e)), MinOf(x.e, y.e))

\* x - y
FltSub(x, y) == FltAdd(x, FltNeg(y))

\* x * y
FltMul(x, y) ==
    IF IsZero(x) \/ IsZero(y) THEN FZero
    ELSE RoundNearest(x.neg # y.neg, BigMul(x.m, y.m), x.e + y.e, FALSE)

\* one step of the long division by d: t is the doubled remainder, and the
\* step appends one bit to the quotient q
DivStep(d, q, t) ==
    IF BigLess(t, d) THEN [q |-> MulAdd(q, 2, 0), r |-> t]
    ELSE [q |-> MulAdd(q, 2, 1), r |-> BigSub(t, d)]

\* n more steps of the long division by d from quotient s.q and remainder
\* s.r (the first half of the steps, then the rest; once the remainder is 0
\* the bits left are zeros)
RECURSIVE DivBits(_, _, _)
DivBits(d, s, n) ==
    IF s.r = <<>> THEN [q |-> ShiftLeft(s.q, n), r |-> s.r]
    ELSE IF n = 1 THEN DivStep(d, s.q, MulAdd(s.r, 2, 0))
    ELSE DivBits(d, DivBits(d, s, n \div 2), n - n \div 2)

\* the number of quotient bits computed after the binary point
QuotientBits == 56

\* the float nearest to (-1)^neg * (d.q + f) * 2^e, 0 < f < 1 when d.r # 0
RoundDivided(neg, d, e) == RoundNearest(neg, d.q, e, d.r # <<>>)

\* x / y for y # 0: the quotient of the significands, which lies between 1/2
\* and 2, to QuotientBits binary places, and whether a remainder is left
FltDiv(x, y) ==
    IF IsZero(x) THEN FZero
    ELSE RoundDivided(x.neg # y.neg,
                      IF BigLess(x.m, y.m)
                      THEN DivBits(y.m, [q |-> <<>>, r |-> x.m], QuotientBits)
                      ELSE DivBits(y.m, [q |-> <<1>>, r |-> BigSub(x.m, y.m)], QuotientBits),
                      x.e - y.e - QuotientBits)

\* the natural nearest to b * 2^e, ties to even
NearestNat(b, e) ==
    IF e >= 0 THEN ShiftLeft(b, e) ELSE RoundQuotient(ShiftRight(b, -e), -e, FALSE)

\* round(x): float -> int, ties to even
Round(x) ==
    IF x.neg THEN -LimbsNat(NearestNat(x.m, x.e)) ELSE LimbsNat(NearestNat(x.m, x.e))

\* the float that the decimal h/100 denotes
Dec2(h) == FltDiv(FromInt(h), FromInt(100))

\* round(x, 2): float -> float.  The two-decimal number nearest to the exact
\* value of x, ties to even, and then the float nearest to that number.
Round2(x) ==
    FltDiv(RoundNearest(x.neg, NearestNat(MulAdd(x.m, 100, 0), x.e), 0, FALSE),
           FromInt(100))

\* ------------------------------------------------------------------------
\* Outcomes of a call
\* ------------------------------------------------------------------------
None == "None"

NotReturned == [returned |-> FALSE, raised |-> FALSE, value |-> None]

Returns(v) == [returned |-> TRUE, raised |-> FALSE, value |-> v]

Raises(e) == [returned |-> FALSE, raised |-> TRUE, value |-> e]

ZeroDivisionError == Raises("ZeroDivisionError")

\* ------------------------------------------------------------------------
\* The metrics functions.  Prices, strikes, margins and days are Python ints
\* here (as in get_sample_data and the defaults); premium is a float.
\* ------------------------------------------------------------------------
DefaultStrikeInterval == 50

DefaultDaysToExpiry == 30

calculate_percentile(current, high, low) ==
    IF high = low THEN Returns(FromInt(50))
    ELSE Returns(FltMul(FltDiv(FromInt(current - low), FromInt(high - low)),
                        FromInt(100)))

\* price is a float (an int argument is converted by the division)
find_nearest_strike(price, strike_interval) ==
    IF strike_interval = 0 THEN ZeroDivisionError
    ELSE Returns(Round(FltDiv(price, FromInt(strike_interval))) * strike_interval)

\* calculate_strike_with_margin with the two directions exchanged
calculate_strike_swapped(spot_price, margin, is_call) ==
    LET nearest_strike == find_nearest_strike(FromInt(spot_price), DefaultStrikeInterval).value
        fraction       == FltDiv(FromInt(margin), FromInt(100))
        target_price   == IF is_call
                          THEN FltMul(FromInt(nearest_strike), FltAdd(FromInt(1), fraction))
                          ELSE FltMul(FromInt(nearest_strike), FltSub(FromInt(1), fraction))
    IN  find_nearest_strike(target_price, DefaultStrikeInterval)

\* calculate_strike_with_margin reading the constructor's margin of 15, not
\* its argument
calculate_strike_fixed_margin(spot_price, margin, is_call) ==
    LET nearest_strike == find_nearest_strike(FromInt(spot_price), DefaultStrikeInterval).value
        fraction       == FltDiv(FromInt(15), FromInt(100))
        target_price   == IF is_call
                          THEN FltMul(FromInt(nearest_strike), FltSub(FromInt(1), fraction))
                          ELSE FltMul(FromInt(nearest_strike), FltAdd(FromInt(1), fraction))
    IN  find_nearest_strike(target_price, DefaultStrikeInterval)

calculate_strike_with_margin(spot_price, margin, is_call) ==
    LET nearest_strike == find_nearest_strike(FromInt(spot_price), DefaultStrikeInterval).value
        fraction       == FltDiv(FromInt(margin), FromInt(100))
        target_price   == IF is_call
                          THEN FltMul(FromInt(nearest_strike), FltSub(FromInt(1), fraction))
                          ELSE FltMul(FromInt(nearest_strike), FltAdd(FromInt(1), fraction))
    IN  find_nearest_strike(target_price, DefaultStrikeInterval)

generate_option_premium(spot_price, strike_price, option_type) ==
    LET base_premium ==
            IF option_type = "CE"
            THEN IF spot_price > strike_price
                 THEN FltAdd(FromInt(spot_price - strike_price),
                             FltMul(FromInt(spot_price), Dec2(2)))
                 ELSE FltMul(FromInt(spot_price), Dec2(1))
            ELSE IF spot_price < strike_price
                 THEN FltAdd(FromInt(strike_price - spot_price),
                             FltMul(FromInt(spot_price), Dec2(2)))
                 ELSE FltMul(FromInt(spot_price), Dec2(1))
    IN  Returns(Round2(base_premium))

\* calculate_irr with a 360-day year
calculate_irr_360(premium, strike_price, days_to_expiry) ==
    IF IsZero(FltMul(FromInt(strike_price), Dec2(15))) THEN Returns(FZero)
    ELSE IF days_to_expiry = 0 THEN ZeroDivisionError
    ELSE Returns(Round2(FltMul(FltMul(FltDiv(premium, FltMul(FromInt(strike_price), Dec2(15))),
                                      FltDiv(FromInt(360), FromInt(days_to_expiry))),
                               FromInt(100))))

\* calculate_irr with the annualisation factor computed before the guard
calculate_irr_factor_first(premium, strike_price, days_to_expiry) ==
    IF days_to_expiry = 0 THEN ZeroDivisionError
    ELSE IF IsZero(FltMul(FromInt(strike_price), Dec2(15))) THEN Returns(FZero)
    ELSE Returns(Round2(FltMul(FltMul(FltDiv(premium, FltMul(FromInt(strike_price), Dec2(15))),
                                      FltDiv(FromInt(365), FromInt(days_to_expiry))),
                               FromInt(100))))

\* the guard returns the int 0, which the model writes as the float zero
calculate_irr(premium, strike_price, days_to_expiry) ==
    LET margin_required == FltMul(FromInt(strike_price), Dec2(15))
    IN  IF IsZero(margin_required) THEN Returns(FZero)
        ELSE IF days_to_expiry = 0 THEN ZeroDivisionError
        ELSE Returns(Round2(FltMul(FltMul(FltDiv(premium, margin_required),
                                          FltDiv(FromInt(365), FromInt(days_to_expiry))),
                                   FromInt(100))))

\* ------------------------------------------------------------------------
\* The analyzer
\* ------------------------------------------------------------------------
Stock(symbol, spot_price, high_52w, low_52w, lot_size) ==
    [symbol |-> symbol, spot_price |-> spot_price, high_52w |-> high_52w,
     low_52w |-> low_52w, lot_size |-> lot_size]

get_sample_data ==
    << Stock("NIFTY", 19500, 20000, 18000, 50),
       Stock("BANKNIFTY", 44500, 46000, 42000, 25),
       Stock("RELIANCE", 2450, 2650, 2250, 250),
       Stock("TCS", 3600, 3850, 3200, 125),
       Stock("INFY", 1480, 1600, 1350, 300),
       Stock("HDFCBANK", 1650, 1750, 1450, 550),
       Stock("ICICIBANK", 950, 1050, 850, 1375),
       Stock("SBIN", 590, 650, 520, 1500),
       Stock("BHARTIARTL", 880, 950, 750, 1220),
       Stock("HINDUNILVR", 2580, 2800, 2350, 300) >>

\* the keys of row_data, in insertion order: the columns of the DataFrame
Columns ==
    << "Symbol", "Spot Price", "52W High", "52W Low", "Percentile", "Lot Size",
       "CE Strike", "CE Premium", "CE IRR", "PE Strike", "PE Premium", "PE IRR",
       "Margin Used (%)" >>

\* the dictionary row_data of the loop of analyze(), from the values the
\* loop has computed
row_dict(stock, margin, multiplier, percentile, ce_strike, ce_premium, ce_irr, pe_strike, pe_premium, pe_irr) ==
    "Symbol" :> stock.symbol
    @@ "Spot Price" :> stock.spot_price
    @@ "52W High" :> stock.high_52w
    @@ "52W Low" :> stock.low_52w
    @@ "Percentile" :> Round2(percentile)
    @@ "Lot Size" :> stock.lot_size * multiplier
    @@ "CE Strike" :> ce_strike
    @@ "CE Premium" :> ce_premium
    @@ "CE IRR" :> Round2(ce_irr)
    @@ "PE Strike" :> pe_strike
    @@ "PE Premium" :> pe_premium
    @@ "PE IRR" :> Round2(pe_irr)
    @@ "Margin Used (%)" :> margin

\* the loop body from the premiums on
row_from_premiums(stock, margin, multiplier, ce_strike, pe_strike, ce_premium, pe_premium) ==
    row_dict(stock, margin, multiplier,
             calculate_percentile(stock.spot_price, stock.high_52w, stock.low_52w).value,
             ce_strike, ce_premium,
             calculate_irr(ce_premium, ce_strike, DefaultDaysToExpiry).value,
             pe_strike, pe_premium,
             calculate_irr(pe_premium, pe_strike, DefaultDaysToExpiry).value)

\* the loop body from the strikes on
row_from_strikes(stock, margin, multiplier, ce_strike, pe_strike) ==
    row_from_premiums(stock, margin, multiplier, ce_strike, pe_strike,
                      generate_option_premium(stock.spot_price, ce_strike, "CE").value,
                      generate_option_premium(stock.spot_price, pe_strike, "PE").value)

\* the body of the loop of analyze(): the row of one stock
row_data(stock, margin, multiplier) ==
    row_from_strikes(stock, margin, multiplier,
                     calculate_strike_with_margin(stock.spot_price, margin, TRUE).value,
                     calculate_strike_with_margin(stock.spot_price, margin, FALSE).value)

\* arguments of run(): the defaults of __init__ and run(), and another pair
RunArguments == {<<15, 1>>, <<20, 2>>}

\* the rows that the loop of analyze() appends, for each margin_percent and
\* lot_multiplier (the loop reads nothing else of the object)
appended_rows ==
    [arguments \in RunArguments |->
        [i \in 1..Len(get_sample_data) |->
            row_data(get_sample_data[i], arguments[1], arguments[2])]]

\* analyze() reading the constructor's defaults, not the object's attributes
analyze_with_defaults(data, margin, multiplier) == data \o appended_rows[<<15, 1>>]

\* analyze(): the list after the loop has appended one row per stock
analyze(data, margin, multiplier) == data \o appended_rows[<<margin, multiplier>>]

\* ------------------------------------------------------------------------
\* The output files
\* ------------------------------------------------------------------------
\* the timestamp of strftime("%Y%m%d_%H%M%S"), written as the count of seconds
Timestamp(now) == ToString(now)

DefaultExcelName(now) == "Options_Analysis_" \o Timestamp(now) \o ".xlsx"

DefaultGraphName(now) == "Options_Analysis_Graphs_" \o Timestamp(now) \o ".png"

\* the workbook: one sheet, a header row and one row per row of the list
\* (column widths are presentation and are left out)
Sheet(data) == [kind |-> "xlsx", header |-> Columns, rows |-> data]

\* the dashboard image, represented by the rows its six panels are drawn from
Chart(data) == [kind |-> "png", rows |-> data]

\* a write that appends the rows to those of a file that exists
WriteAppend(fs, name, content) ==
    [f \in DOMAIN fs \cup {name} |->
        IF f # name THEN fs[f]
        ELSE IF name \in DOMAIN fs
        THEN [content EXCEPT !.rows = fs[name].rows \o content.rows]
        ELSE content]

\* the file system after name has been written with content
Write(fs, name, content) ==
    [f \in DOMAIN fs \cup {name} |-> IF f = name THEN content ELSE fs[f]]

\* save_to_excel without the guard on an empty list
save_to_excel_unguarded(data, fs, now, filename, writable) ==
    LET name == IF filename = None THEN DefaultExcelName(now) ELSE filename
    IN  IF ~writable
        THEN [files |-> fs, result |-> Raises(<<"OSError", "save_to_excel">>)]
        ELSE [files |-> Write(fs, name, Sheet(data)), result |-> Returns(name)]

\* save_to_excel(filename) on list data, file system fs, at time now; writable
\* is the file system's answer to the write (FALSE: it rejects it, OSError)
save_to_excel(data, fs, now, filename, writable) ==
    IF data = <<>> THEN [files |-> fs, result |-> Returns(None)]
    ELSE LET name == IF filename = None THEN DefaultExcelName(now) ELSE filename
         IN  IF ~writable
             THEN [files |-> fs, result |-> Raises(<<"OSError", "save_to_excel">>)]
             ELSE [files |-> Write(fs, name, Sheet(data)), result |-> Returns(name)]

save_graphs(data, fs, now, filename, writable) ==
    IF data = <<>> THEN [files |-> fs, result |-> Returns(None)]
    ELSE LET name == IF filename = None THEN DefaultGraphName(now) ELSE filename
         IN  IF ~writable
             THEN [files |-> fs, result |-> Raises(<<"OSError", "save_graphs">>)]
             ELSE [files |-> Write(fs, name, Chart(data)), result |-> Returns(name)]

\* the output stages of run() made independent: save_graphs() runs whether
\* or not save_to_excel() raised, and the first exception is raised at the end
run_outputs_independent(rows, fs, now, excel_writable, graph_writable) ==
    LET excel == save_to_excel(rows, fs, now, None, excel_writable)
        graph == save_graphs(rows, excel.files, now, None, graph_writable)
    IN  IF excel.result.raised THEN [data |-> rows, files |-> graph.files, result |-> excel.result]
        ELSE IF graph.result.raised THEN [data |-> rows, files |-> graph.files, result |-> graph.result]
        ELSE [data |-> rows, files |-> graph.files,
              result |-> Returns(<<excel.result.value, graph.result.value>>)]

\* run() after self.analyze() has left rows in the list: save_to_excel(), then
\* save_graphs(); an exception of a stage is not caught, so it ends run()
run_outputs(rows, fs, now, excel_writable, graph_writable) ==
    LET excel == save_to_excel(rows, fs, now, None, excel_writable)
        graph == save_graphs(rows, excel.files, now, None, graph_writable)
    IN  IF excel.result.raised THEN [data |-> rows, files |-> excel.files, result |-> excel.result]
        ELSE IF graph.result.raised THEN [data |-> rows, files |-> graph.files, result |-> graph.result]
        ELSE [data |-> rows, files |-> graph.files,
              result |-> Returns(<<excel.result.value, graph.result.value>>)]

\* run(margin_percent, lot_multiplier): the list, the files and the outcome
run(data, fs, now, margin, multiplier, excel_writable, graph_writable) ==
    run_outputs(analyze(data, margin, multiplier), fs, now, excel_writable, graph_writable)

\* ------------------------------------------------------------------------
\* Bounds
\* ------------------------------------------------------------------------
\* calls made on one OptionsAnalyzer
MaxCalls == 3

\* seconds that pass on the wall clock
MaxClock == 1

\* explicit file names a caller passes
ExcelNames == {"report.xlsx"}

GraphNames == {"charts.png"}

\* arguments of the metrics functions
MaxSpot == 100

MaxPrice == 6

MaxPremium == 5

SpotPrices == 1..MaxSpot \cup {get_sample_data[i].spot_price : i \in 1..Len(get_sample_data)}

Prices == 0..MaxPrice

Margins == {0, 1, 15, 50, 99}

StrikeIntervals == {0, 25, DefaultStrikeInterval}

StrikePrices == {0, DefaultStrikeInterval, 2 * DefaultStrikeInterval}

OptionTypes == {"CE", "PE"}

Premiums == {FromInt(p) : p \in 0..MaxPremium}

DaysToExpiry == {0, 7, DefaultDaysToExpiry}

\* ------------------------------------------------------------------------
\* Specification Spec: an OptionsAnalyzer and the calls a caller makes on it
\* ------------------------------------------------------------------------
NoCall == [call |-> [op |-> "none"], result |-> NotReturned]

\* OptionsAnalyzer()
Init ==
    /\ analysis_data = <<>>
    /\ margin_percent = 15
    /\ lot_multiplier = 1
    /\ files = <<>>
    /\ clock = 0
    /\ call = [op |-> "__init__"]
    /\ result = Returns(None)
    /\ prev = NoCall
    /\ calls = 0

\* a call begins: the call before it becomes prev
Called ==
    /\ calls < MaxCalls
    /\ calls' = calls + 1
    /\ prev' = [call |-> call, result |-> result]

\* analyze() returns self.analysis_data, the list itself
Analyze ==
    /\ Called
    /\ analysis_data' = analyze(analysis_data, margin_percent, lot_multiplier)
    /\ call' = [op |-> "analyze"]
    /\ result' = Returns("self.analysis_data")
    /\ UNCHANGED <<margin_percent, lot_multiplier, files, clock>>

SaveToExcel(filename, writable) ==
    LET out == save_to_excel(analysis_data, files, clock, filename, writable)
    IN  /\ Called
        /\ files' = out.files
        /\ call' = [op |-> "save_to_excel", filename |-> filename]
        /\ result' = out.result
        /\ UNCHANGED <<analysis_data, margin_percent, lot_multiplier, clock>>

SaveGraphs(filename, writable) ==
    LET out == save_graphs(analysis_data, files, clock, filename, writable)
    IN  /\ Called
        /\ files' = out.files
        /\ call' = [op |-> "save_graphs", filename |-> filename]
        /\ result' = out.result
        /\ UNCHANGED <<analysis_data, margin_percent, lot_multiplier, clock>>

\* the effect of run() on the object and the files
RunEnds(out) ==
    /\ analysis_data' = out.data
    /\ files' = out.files
    /\ result' = out.result

Run(margin, multiplier, excel_writable, graph_writable) ==
    /\ Called
    /\ margin_percent' = margin
    /\ lot_multiplier' = multiplier
    /\ call' = [op |-> "run", margin_percent |-> margin, lot_multiplier |-> multiplier]
    /\ RunEnds(run(analysis_data, files, clock, margin, multiplier,
                   excel_writable, graph_writable))
    /\ UNCHANGED clock

\* time passes between two calls
Tick ==
    /\ clock < MaxClock
    /\ clock' = clock + 1
    /\ UNCHANGED <<analysis_data, margin_percent, lot_multiplier, files, call, result,
                   prev, calls>>

Next ==
    \/ Analyze
    \/ \E filename \in ExcelNames \cup {None}, writable \in BOOLEAN :
           SaveToExcel(filename, writable)
    \/ \E filename \in GraphNames \cup {None}, writable \in BOOLEAN :
           SaveGraphs(filename, writable)
    \/ \E arguments \in RunArguments, excel_writable \in BOOLEAN, graph_writable \in BOOLEAN :
           Run(arguments[1], arguments[2], excel_writable, graph_writable)
    \/ Tick

Spec == Init /\ [][Next]_vars

\* ------------------------------------------------------------------------
\* Specification SpecFn: one call of a metrics function on a new
\* OptionsAnalyzer, with arguments drawn from the sets above
\* ------------------------------------------------------------------------
PercentileCalls ==
    {[op |-> "calculate_percentile", current |-> c, high |-> h, low |-> l] :
        c \in Prices, h \in Prices, l \in Prices}

NearestStrikeCalls ==
    {[op |-> "find_nearest_strike", price |-> p, strike_interval |-> s] :
        p \in SpotPrices, s \in StrikeIntervals}

StrikeWithMarginCalls ==
    {[op |-> "calculate_strike_with_margin", spot_price |-> p, margin_percent |-> m,
      is_call |-> c] : p \in SpotPrices, m \in Margins, c \in BOOLEAN}

PremiumCalls ==
    {[op |-> "generate_option_premium", spot_price |-> p, strike_price |-> k,
      option_type |-> t] : p \in SpotPrices, k \in StrikePrices, t \in OptionTypes}

IrrCalls ==
    {[op |-> "calculate_irr", premium |-> p, strike_price |-> k, days_to_expiry |-> d] :
        p \in Premiums, k \in StrikePrices, d \in DaysToExpiry}

InitFn ==
    /\ analysis_data = <<>>
    /\ margin_percent = 15
    /\ lot_multiplier = 1
    /\ files = <<>>
    /\ clock = 0
    /\ \/ call \in PercentileCalls
       \/ call \in NearestStrikeCalls
       \/ call \in StrikeWithMarginCalls
       \/ call \in PremiumCalls
       \/ call \in IrrCalls
    /\ result = NotReturned
    /\ prev = NoCall
    /\ calls = 0

\* the call ends with the outcome out; the functions read and write nothing
\* of the object
Ends(out) ==
    /\ result = NotReturned
    /\ result' = out
    /\ calls' = calls + 1
    /\ UNCHANGED <<analysis_data, margin_percent, lot_multiplier, files, clock, call, prev>>

CalculatePercentile ==
    /\ call.op = "calculate_percentile"
    /\ Ends(calculate_percentile(call.current, call.high, call.low))

FindNearestStrike ==
    /\ call.op = "find_nearest_strike"
    /\ Ends(find_nearest_strike(FromInt(call.price), call.strike_interval))

CalculateStrikeWithMargin ==
    /\ call.op = "calculate_strike_with_margin"
    /\ Ends(calculate_strike_with_margin(call.spot_price, call.margin_percent, call.is_call))

GenerateOptionPremium ==
    /\ call.op = "generate_option_premium"
    /\ Ends(generate_option_premium(call.spot_price, call.strike_price, call.option_type))

CalculateIrr ==
    /\ call.op = "calculate_irr"
    /\ Ends(calculate_irr(call.premium, call.strike_price, call.days_to_expiry))

NextFn ==
    \/ CalculatePercentile
    \/ FindNearestStrike
    \/ CalculateStrikeWithMargin
    \/ GenerateOptionPremium
    \/ CalculateIrr

SpecFn == InitFn /\ [][NextFn]_vars

\* ------------------------------------------------------------------------
\* Properties
\* ------------------------------------------------------------------------
\* a call of op has ended
Ended(op) == call.op = op /\ result # NotReturned

\* C1 (as stated): after any number of analyze() or run() calls on one
\* OptionsAnalyzer, analysis_data holds exactly one row per record of
\* get_sample_data().  analyze() appends to the list and nothing empties it,
\* so the second call leaves two rows per record.
C1_OneRowPerRecord ==
    call.op \in {"analyze", "run"} => Len(analysis_data) = Len(get_sample_data)

\* a step that is a call of op
IsCall(op) == calls' = calls + 1 /\ call'.op = op

\* C2: while analysis_data is empty, a call of save_to_excel or save_graphs,
\* with a file name or without, returns None, raises nothing, creates or
\* changes no file and leaves analysis_data empty.
C2_NoDataNoOutput ==
    [][(analysis_data = <<>> /\ (IsCall("save_to_excel") \/ IsCall("save_graphs")))
         => /\ result' = Returns(None)
            /\ files' = files
            /\ analysis_data' = <<>>]_vars

\* C2 happens: save_to_excel was called with a file name while analysis_data
\* was empty, the file system accepting writes or not
C2_Witness ==
    /\ analysis_data = <<>>
    /\ call.op = "save_to_excel"
    /\ call.filename \in ExcelNames
    /\ result = Returns(None)

\* the exception of run() whose report stage failed
ReportStageFailed == Raises(<<"OSError", "save_to_excel">>)

\* C3 (as stated): when save_to_excel raises during run(), save_graphs still
\* executes over the same analysis_data and writes the chart image.
C3_ChartStillWritten ==
    (call.op = "run" /\ result = ReportStageFailed)
        => \E f \in DOMAIN files : files[f] = Chart(analysis_data)

\* C3 (amended): when save_to_excel raises during run(), run() raises that
\* exception after analyze() has appended its rows, and save_graphs does not
\* execute: the call writes no file.
C3_FailureEndsRun ==
    [][(IsCall("run") /\ result' = ReportStageFailed)
         => /\ files' = files
            /\ Len(analysis_data') = Len(analysis_data) + Len(get_sample_data)]_vars

\* C3 happens: run() has raised the exception of save_to_excel
C3_Witness == call.op = "run" /\ result = ReportStageFailed /\ analysis_data # <<>>

\* C4: after analyze() on a newly constructed analyzer (directly or in run()),
\* analysis_data has one row per record of get_sample_data(), in order: row i
\* has the symbol, spot price, 52-week high and low of record i, Lot Size
\* lot_size * lot_multiplier and Margin Used (%) margin_percent.
C4_OneRowPerRecordInOrder ==
    [][(analysis_data = <<>> /\ (IsCall("analyze") \/ IsCall("run")))
         => /\ Len(analysis_data') = Len(get_sample_data)
            /\ \A i \in 1..Len(get_sample_data) :
                  /\ analysis_data'[i]["Symbol"] = get_sample_data[i].symbol
                  /\ analysis_data'[i]["Spot Price"] = get_sample_data[i].spot_price
                  /\ analysis_data'[i]["52W High"] = get_sample_data[i].high_52w
                  /\ analysis_data'[i]["52W Low"] = get_sample_data[i].low_52w
                  /\ analysis_data'[i]["Lot Size"] = get_sample_data[i].lot_size * lot_multiplier'
                  /\ analysis_data'[i]["Margin Used (%)"] = margin_percent']_vars

\* C4 happens: run(20, 2) was the first call on the analyzer
C4_Witness ==
    /\ calls = 1
    /\ call.op = "run"
    /\ lot_multiplier = 2
    /\ margin_percent = 20
    /\ Len(analysis_data) = Len(get_sample_data)

\* the row of NIFTY computed with margin_percent = 15 is the first of the list
NiftyRowAtMargin15 ==
    /\ analysis_data # <<>>
    /\ analysis_data[1]["Symbol"] = "NIFTY"
    /\ analysis_data[1]["Margin Used (%)"] = 15

\* C5 (as stated): for NIFTY (spot 19500, high 20000, low 18000) with
\* margin_percent = 15, the row has Percentile 75.0, CE Strike 16600,
\* CE Premium 3290.00 and CE IRR 1607.95.
C5_NiftyRowAsStated ==
    NiftyRowAtMargin15
        => /\ analysis_data[1]["Percentile"] = FromInt(75)
           /\ analysis_data[1]["CE Strike"] = 16600
           /\ analysis_data[1]["CE Premium"] = FromInt(3290)
           /\ analysis_data[1]["CE IRR"] = Dec2(160795)

\* C5 (amended): for NIFTY (spot 19500, high 20000, low 18000) with
\* margin_percent = 15, the row has Percentile 75.0, CE Strike 16600,
\* CE Premium 3290.00 and CE IRR 1607.56.
C5_NiftyRow ==
    NiftyRowAtMargin15
        => /\ analysis_data[1]["Percentile"] = FromInt(75)
           /\ analysis_data[1]["CE Strike"] = 16600
           /\ analysis_data[1]["CE Premium"] = FromInt(3290)
           /\ analysis_data[1]["CE IRR"] = Dec2(160756)

\* C5 happens: analyze() has run with margin_percent = 15
C5_Witness == NiftyRowAtMargin15 /\ call.op = "analyze"

MetricsFunctions ==
    {"calculate_percentile", "find_nearest_strike", "calculate_strike_with_margin",
     "generate_option_premium", "calculate_irr"}

\* C6 (as stated): every metrics function returns a value and never raises,
\* whatever its numeric arguments, strike_interval and days_to_expiry among
\* them.  find_nearest_strike divides by strike_interval and calculate_irr by
\* days_to_expiry, without a guard.
C6_NeverRaises == call.op \in MetricsFunctions => ~result.raised

\* C7 (as stated): for spot_price > 0 and 0 < margin_percent < 100, the call
\* strike is at most spot_price and the put strike is at least spot_price.
C7_StrikesAroundSpot ==
    (Ended("calculate_strike_with_margin") /\ call.spot_price > 0
        /\ call.margin_percent > 0 /\ call.margin_percent < 100)
        => IF call.is_call THEN result.value <= call.spot_price
           ELSE result.value >= call.spot_price

\* C7 (amended): for spot_price > 0 and 0 < margin_percent < 100, the call
\* strike is at most find_nearest_strike(spot_price) and the put strike is at
\* least find_nearest_strike(spot_price).
C7_StrikesAroundNearestStrike ==
    (Ended("calculate_strike_with_margin") /\ call.spot_price > 0
        /\ call.margin_percent > 0 /\ call.margin_percent < 100)
        => IF call.is_call
           THEN result.value
                    <= find_nearest_strike(FromInt(call.spot_price), DefaultStrikeInterval).value
           ELSE result.value
                    >= find_nearest_strike(FromInt(call.spot_price), DefaultStrikeInterval).value

\* C7 happens: a call strike above the spot price, and equal to the nearest
\* strike of the spot price
C7_Witness ==
    /\ Ended("calculate_strike_with_margin")
    /\ call.is_call
    /\ call.margin_percent = 15
    /\ call.spot_price = 26
    /\ result = Returns(50)

\* C8: for every spot price and both values of is_call,
\* calculate_strike_with_margin(spot, 0, is_call) = find_nearest_strike(spot).
C8_ZeroMarginNoAdjustment ==
    (Ended("calculate_strike_with_margin") /\ call.margin_percent = 0)
        => result = find_nearest_strike(FromInt(call.spot_price), DefaultStrikeInterval)

\* C8 happens: a put strike at zero margin, for a spot price that is no
\* multiple of 50
C8_Witness ==
    /\ Ended("calculate_strike_with_margin")
    /\ call.margin_percent = 0
    /\ ~call.is_call
    /\ call.spot_price = 75
    /\ result = Returns(100)

\* C9: calculate_percentile(x, h, l) returns 50.0 whenever h = l, and
\* calculate_irr(premium, 0, days) returns 0 for every premium and every
\* days_to_expiry, 0 among them.
C9_Sentinels ==
    /\ (Ended("calculate_percentile") /\ call.high = call.low) => result = Returns(FromInt(50))
    /\ (Ended("calculate_irr") /\ call.strike_price = 0) => result = Returns(FZero)

\* C9 happens: calculate_irr has ended for strike_price = 0 and
\* days_to_expiry = 0, with a premium that is not 0
C9_Witness ==
    /\ Ended("calculate_irr")
    /\ call.strike_price = 0
    /\ call.days_to_expiry = 0
    /\ ~IsZero(call.premium)

\* C10: the second of two consecutive calls save_to_excel(filename) with the
\* same file name, on a list that is not empty and with no other call in
\* between, returns the file name as the first did, leaves analysis_data
\* unchanged and leaves the files as the first call left them: one file of
\* that name, holding the header and one row per row of analysis_data.
C10_SaveTwiceIsSaveOnce ==
    [][(/\ IsCall("save_to_excel")
        /\ call' = call
        /\ call.filename \in ExcelNames
        /\ analysis_data # <<>>
        /\ result.returned
        /\ result'.returned)
         => /\ result = Returns(call.filename)
            /\ result' = result
            /\ analysis_data' = analysis_data
            /\ files' = files
            /\ files'[call.filename] = Sheet(analysis_data)]_vars

\* C10 happens: two consecutive calls save_to_excel(filename) with the same
\* file name have returned
C10_Witness ==
    /\ call.op = "save_to_excel"
    /\ call.filename \in ExcelNames
    /\ prev.call = call
    /\ analysis_data # <<>>
    /\ result.returned
    /\ prev.result.returned

====
